---- MODULE Spec2Model ----
(***************************************************************************)
(* A model of the dynamic gRPC invocation client of arwoosa/vulpes         *)
(* (ezgrpc/client/client.go): the connection pool (client.conns), the      *)
(* service cache (client.services), the RWMutex that guards them and the   *)
(* dynamic invoker, run by several goroutines at once.                     *)
(***************************************************************************)
EXTENDS Naturals, Integers, Sequences, FiniteSets, TLC

\* ------------------------------------------------------------------ bounds
\* Number of goroutines calling into one client.
NProcs == 2
\* Total number of Invoke / GetServiceInvoker calls started in one behaviour.
MaxCalls == 2
\* Total number of Close calls started in one behaviour.
MaxCloses == 2
\* Number of files handed to parseServiceDescriptor.
MaxFiles == 2
\* rabbitmq: messages published, and deliveries of one message, in one
\* behaviour.
MaxSent == 3
MaxDeliveries == 3
\* mgo: calls of InitConnection in one behaviour.
MaxInits == 3
\* Number of requests the server receives, and of token periods that pass.
MaxRequests == 5
MaxTicks == 1

Procs == 1..NProcs
\* The goroutine that owns the client and shuts it down: it calls Close.
Closer == 0

\* ------------------------------------------------------------- environment
\* Targets handed to the client.  "h/p" has a reflection-enabled server
\* listening, "h" has no server listening, "%zz" is a target string that
\* grpc.NewClient cannot parse.
AddrUp == "h/p"
AddrDown == "h"
AddrBad == "%zz"
Addresses == {AddrUp, AddrDown, AddrBad}

\* Service names handed to the client.  "Greeter" is a service of the server,
\* "HelloRequest" is a message (not a service) of the server, "p/Greeter" is
\* a symbol the server does not know.
ServiceNames == {"Greeter", "HelloRequest", "p/Greeter"}

\* Method names handed to the client.
MethodNames == {"SayHello", "SayHelloStream", "Nope"}

\* A request payload: a nil byte slice, or a sequence of JSON tokens.  A token
\* is "{", "}" or the name of a member ("name" stands for "name": "v").
Body(isNil, toks) == [isNil |-> isNil, toks |-> toks]
NilBody == Body(TRUE, <<>>)
Bodies ==
  { NilBody,
    Body(FALSE, <<>>),
    Body(FALSE, <<"{", "}">>),
    Body(FALSE, <<"{", "name", "}">>),
    Body(FALSE, <<"{", "name">>),
    Body(FALSE, <<"{", "zzz", "}">>) }

\* Message descriptors of the server's file.
HelloRequest == [name |-> "HelloRequest", fields |-> {"name"}]
HelloReply == [name |-> "HelloReply", fields |-> {"message"}]

\* The file descriptor the server registers: one service with a unary and a
\* server-streaming method, and two messages.
GreeterFile ==
  [ name |-> "helloworld.proto",
    deps |-> {},
    messages |-> {HelloRequest, HelloReply},
    services |-> <<
      [ FullName |-> "Greeter",
        methods |-> <<
          [ Name |-> "SayHello", Input |-> "HelloRequest", Output |-> "HelloReply",
            IsStreamingClient |-> FALSE, IsStreamingServer |-> FALSE ],
          [ Name |-> "SayHelloStream", Input |-> "HelloRequest", Output |-> "HelloReply",
            IsStreamingClient |-> FALSE, IsStreamingServer |-> TRUE ] >> ] >> ]

\* A file whose import is not part of the response: it cannot be linked.
UnlinkableFile == [GreeterFile EXCEPT !.deps = {"missing.proto"}]

\* Further files a reflection response may carry: a service with a method of
\* each streaming kind, a second file that declares a service "Greeter", and
\* a file of messages only.
Method(name, input, output, client, server) ==
  [ Name |-> name, Input |-> input, Output |-> output,
    IsStreamingClient |-> client, IsStreamingServer |-> server ]
ChatFile ==
  [ name |-> "chat.proto",
    deps |-> {},
    messages |-> {[name |-> "Msg", fields |-> {"text"}]},
    services |-> <<
      [ FullName |-> "Chat",
        methods |-> << Method("Send", "Msg", "Msg", FALSE, FALSE),
                       Method("Upload", "Msg", "Msg", TRUE, FALSE),
                       Method("Watch", "Msg", "Msg", FALSE, TRUE),
                       Method("Talk", "Msg", "Msg", TRUE, TRUE) >> ] >> ]
DupFile ==
  [ name |-> "dup.proto",
    deps |-> {},
    messages |-> {[name |-> "DupMsg", fields |-> {}]},
    services |-> <<
      [ FullName |-> "Greeter",
        methods |-> << Method("Other", "DupMsg", "DupMsg", FALSE, FALSE) >> ] >> ]
MsgFile ==
  [ name |-> "msg.proto", deps |-> {},
    messages |-> {[name |-> "Note", fields |-> {}]}, services |-> <<>> ]
ParseFiles == {GreeterFile, UnlinkableFile, ChatFile, DupFile, MsgFile}
ParseNames == {"Greeter", "Chat", "HelloRequest", "Nope"}

\* Symbols the server's reflection service can find: its services and messages.
ServerSymbols(file) ==
  {file.services[i].FullName : i \in DOMAIN file.services}
    \cup {m.name : m \in file.messages}

\* A reflection response: a FileDescriptorResponse (a sequence of blobs, each
\* well-formed or not), an ErrorResponse, or neither.
FileResp(blobs) == [type |-> "file", blobs |-> blobs]
ErrorResp == [type |-> "error", blobs |-> <<>>]
OtherResp == [type |-> "other", blobs |-> <<>>]
Blob(wellFormed, fdp) == [wellFormed |-> wellFormed, fdp |-> fdp]

\* What the reflection service of a well-behaved peer answers to
\* FileContainingSymbol(symbol): the declaring file, or NOT_FOUND.
HonestResponse(symbol) ==
  IF symbol \in ServerSymbols(GreeterFile)
    THEN FileResp(<<Blob(TRUE, GreeterFile)>>)
    ELSE ErrorResp

\* What a peer may answer at all: the honest answer, or a damaged one.
Responses(symbol) ==
  { HonestResponse(symbol),
    OtherResp,
    FileResp(<<Blob(FALSE, GreeterFile)>>),
    FileResp(<<Blob(TRUE, UnlinkableFile)>>) }

\* rabbitmq: the queue names used, and the messages, named by the order of
\* their publication.
QueueNames == {"jobs"}
Messages == 1..MaxSent

\* mgo: the database names and the servers InitConnection is pointed at: one
\* that answers, one whose URI mongo.Connect refuses, one that never answers
\* the ping.
DbNames == {"app", "test"}
MongoURIs == {"mongodb://up", "bad-uri", "mongodb://down"}

\* ------------------------------------------------------------------ errors
MgoErrConnectionFailed == "mgo.ErrConnectionFailed"
ErrPingFailed == "mgo.ErrPingFailed"
\* An error value: the message that was formatted last (kind) and the set of
\* sentinels errors.Is finds in its %w chain (is).
ErrServiceNotFound == "ErrServiceNotFound"
ErrMethodNotFound == "ErrMethodNotFound"
ErrInvalidRequest == "ErrInvalidRequest"
ErrConnectionFailed == "ErrConnectionFailed"
ErrFetchServerInfoFailed == "ErrFetchServerInfoFailed"
Sentinels ==
  { ErrServiceNotFound, ErrMethodNotFound, ErrInvalidRequest,
    ErrConnectionFailed, ErrFetchServerInfoFailed }

NoErr == [kind |-> "nil", is |-> {}]
\* fmt.Errorf with %v / %s / %d verbs only: a new error that wraps nothing.
Errorf(kind) == [kind |-> kind, is |-> {}]
\* fmt.Errorf("%w: ... %w", sentinel, err): wraps the sentinel and err.
Wrap(sentinel, err) == [kind |-> err.kind, is |-> {sentinel} \cup err.is]
\* errors.Is(err, target)
ErrorsIs(err, target) == target \in err.is

\* ---------------------------------------------------------- pure functions
Range(seq) == {seq[i] : i \in DOMAIN seq}
EmptyMap == [k \in {} |-> 0]
\* m[k] = v on a Go map.
Put(m, k, v) == [x \in DOMAIN m \cup {k} |-> IF x = k THEN v ELSE m[x]]

\* cacheKey := address + "/" + serviceName
CacheKey(address, serviceName) == address \o "/" \o serviceName

\* grpc.NewClient builds the channel object without any network I/O; it fails
\* only on a target it cannot parse.
NewClientFails(address) == address = AddrBad

\* proto.Unmarshal of every blob of a FileDescriptorResponse, in order: the
\* descriptors, or a failure at the first blob that is not well-formed.
UnmarshalBlobs(blobs) ==
  IF \E i \in DOMAIN blobs : ~blobs[i].wellFormed
    THEN [ok |-> FALSE, files |-> <<>>]
    ELSE [ok |-> TRUE, files |-> [i \in DOMAIN blobs |-> blobs[i].fdp]]

\* protodesc.NewFiles: every import and every method type must resolve
\* inside the set of files.
AllMessages(files) == UNION {f.messages : f \in Range(files)}
\* protodesc.NewFiles without the registry's check for name conflicts.
NewFilesOk_NoConflictCheck(files) ==
  /\ \A f \in Range(files) : f.deps \subseteq {g.name : g \in Range(files)}
  /\ \A f \in Range(files) : \A s \in Range(f.services) : \A m \in Range(s.methods) :
       {m.Input, m.Output} \subseteq {d.name : d \in AllMessages(files)}

\* A file may appear once, and the registry refuses a file that declares a
\* name another file of the set declares.
NewFilesOk(files) ==
  /\ \A f \in Range(files) : f.deps \subseteq {g.name : g \in Range(files)}
  /\ \A f \in Range(files) : \A s \in Range(f.services) : \A m \in Range(s.methods) :
       {m.Input, m.Output} \subseteq {d.name : d \in AllMessages(files)}
  /\ \A i, j \in DOMAIN files : i # j =>
       /\ files[i].name # files[j].name
       /\ ServerSymbols(files[i]) \cap ServerSymbols(files[j]) = {}
MessageByName(files, name) == CHOOSE d \in AllMessages(files) : d.name = name

\* The positions <<file, service>> at which a service is declared, and their
\* order of visit: file order, then declaration order in the file.
ServicePositions(files) ==
  UNION {{<<i, j>> : j \in DOMAIN files[i].services} : i \in DOMAIN files}
Before(a, b) == a[1] < b[1] \/ (a[1] = b[1] /\ a[2] <= b[2])

NilInfo == [Name |-> "", Methods |-> EmptyMap]

\* The method map with a streaming flag that looks at the server side only.
MethodsOf_ServerOnly(files, service) ==
  [ n \in {m.Name : m \in Range(service.methods)} |->
      LET m == CHOOSE x \in Range(service.methods) : x.Name = n
      IN  [ Name |-> m.Name,
            InputType |-> MessageByName(files, m.Input),
            OutputType |-> MessageByName(files, m.Output),
            IsStream |-> m.IsStreamingServer ] ]

\* methods[string(method.Name())] = &methodInfo{...}
MethodsOf(files, service) ==
  [ n \in {m.Name : m \in Range(service.methods)} |->
      LET m == CHOOSE x \in Range(service.methods) : x.Name = n
      IN  [ Name |-> m.Name,
            InputType |-> MessageByName(files, m.Input),
            OutputType |-> MessageByName(files, m.Output),
            IsStream |-> m.IsStreamingClient \/ m.IsStreamingServer ] ]

parseServiceDescriptor(files, serviceName) ==
  IF ~NewFilesOk(files)
    THEN [err |-> Errorf("failed to create file descriptor"), info |-> NilInfo]
    ELSE
      LET matches == {pos \in ServicePositions(files) :
                        files[pos[1]].services[pos[2]].FullName = serviceName}
      IN  IF matches = {}
            THEN [err |-> Errorf("service not found in file descriptors"), info |-> NilInfo]
            ELSE
              LET first == CHOOSE pos \in matches : \A q \in matches : Before(pos, q)
                  target == files[first[1]].services[first[2]]
              IN  [ err |-> NoErr,
                    info |-> [Name |-> target.FullName, Methods |-> MethodsOf(files, target)] ]

\* The outcomes of the three blocking steps of the reflection exchange:
\* opening the stream, sending the request, receiving the response.
TransportOutcomes == {"ok", "stream", "send", "recv"}

\* fetchServiceInfoFromServer, given how the transport behaved and what the
\* peer answered.
fetchServiceInfoFromServer(transport, resp, serviceName) ==
  IF transport = "stream"
    THEN [err |-> Errorf("failed to create reflection stream"), info |-> NilInfo]
  ELSE IF transport = "send"
    THEN [err |-> Errorf("failed to send file request"), info |-> NilInfo]
  ELSE IF transport = "recv"
    THEN [err |-> Errorf("failed to receive response"), info |-> NilInfo]
  ELSE IF resp.type = "error"
    THEN [err |-> Errorf("server reflection error"), info |-> NilInfo]
  ELSE IF resp.type # "file"
    THEN [err |-> Errorf("unexpected response type"), info |-> NilInfo]
  ELSE
    LET un == UnmarshalBlobs(resp.blobs)
    IN  IF ~un.ok
          THEN [err |-> Errorf("failed to unmarshal file descriptor proto"), info |-> NilInfo]
          ELSE parseServiceDescriptor(un.files, serviceName)

\* protojson.Unmarshal(jsonbody, requestProto): the text must be one JSON
\* object whose members are distinct fields of the message descriptor.
JSONMembers(toks) == [i \in 1..(Len(toks) - 2) |-> toks[i + 1]]
protojsonUnmarshal(toks, descriptor) ==
  /\ Len(toks) >= 2
  /\ toks[1] = "{"
  /\ toks[Len(toks)] = "}"
  /\ \A i \in DOMAIN JSONMembers(toks) :
       /\ JSONMembers(toks)[i] \in descriptor.fields
       /\ \A j \in DOMAIN JSONMembers(toks) : j # i => JSONMembers(toks)[j] # JSONMembers(toks)[i]

\* The outcomes of conn.Invoke: success, or a status error of the transport
\* or of the remote handler.
RPCOutcomes == {"ok", "DeadlineExceeded", "Unknown"}
\* The outcome of conn.Invoke on a channel that was closed.
RPCCanceled == "Canceled"
RPCError(outcome) == [kind |-> "rpc " \o outcome, is |-> {}]

\* ------------------------------------------------------ the generic facade
\* The requests handed to ezgrpc.Invoke[T, R]: a nil interface value, and a
\* nil and a non-nil value of each kind that can be nil, a struct and a
\* string.  fields are the JSON members the value marshals to.
Value(kind, isnil, fields) == [kind |-> kind, isnil |-> isnil, fields |-> fields]
NoReq == Value("none", FALSE, <<>>)
NilableKinds == {"Chan", "Func", "Interface", "Map", "Ptr", "Slice"}
Requests ==
  { Value("nil", TRUE, <<>>) }
    \cup { Value(k, TRUE, <<>>) : k \in NilableKinds \ {"Interface"} }
    \cup { Value("Ptr", FALSE, <<"name">>), Value("Map", FALSE, <<"zzz">>),
           Value("Struct", FALSE, <<>>), Value("Slice", FALSE, <<>>),
           Value("Chan", FALSE, <<>>), Value("String", FALSE, <<>>) }
\* The types R the reply is decoded into.
ResponseTypes == {"Struct", "String"}

\* isNil(v): any(v) == nil, or a nil value of a kind that can be nil.
isNil(v) == v.kind = "nil" \/ (v.kind \in NilableKinds /\ v.isnil)

\* json.Marshal(req): an object for a struct, a pointer to one or a map,
\* null for a nil value, an array for a slice, a string for a string; an
\* error for a channel or a func.
jsonMarshal(v) ==
  IF v.kind \in {"Chan", "Func"} /\ ~v.isnil
    THEN [body |-> NilBody, err |-> Errorf("json: unsupported type")]
  ELSE IF v.kind = "nil" \/ v.isnil
    THEN [body |-> Body(FALSE, <<"null">>), err |-> NoErr]
  ELSE IF v.kind = "Slice"
    THEN [body |-> Body(FALSE, <<"[", "]">>), err |-> NoErr]
  ELSE IF v.kind = "String"
    THEN [body |-> Body(FALSE, <<"\"s\"">>), err |-> NoErr]
  ELSE [body |-> Body(FALSE, <<"{">> \o v.fields \o <<"}">>), err |-> NoErr]

\* json.Unmarshal(respByte, &zeroR): a JSON object decodes into a struct and
\* into nothing else.
jsonUnmarshal(body, rtype) ==
  IF body.isNil \/ body.toks = <<>>
    THEN Errorf("unexpected end of JSON input")
  ELSE IF rtype # "Struct"
    THEN Errorf("json: cannot unmarshal object into Go value")
  ELSE NoErr

\* ------------------------------------------------- the server's rate limiter
\* The peers of the server's requests: TCP addresses of two hosts, two source
\* ports each; NoPeer is a context that carries no peer.
IPs == {"10.0.0.1", "10.0.0.2"}
Ports == {"1001", "1002"}
Peers == {[ip |-> i, port |-> q] : i \in IPs, q \in Ports}
NoPeer == [ip |-> "", port |-> ""]
\* p.Addr.String() of a *net.TCPAddr: "ip:port".
AddrString(peer) == peer.ip \o ":" \o peer.port

\* newIPRateLimiter(rate.Limit(1), 2): one token per period, burst of 2.
Burst == 2
Min(a, b) == IF a <= b THEN a ELSE b
\* rate.NewLimiter(l.rate, l.burst) at time t: a full bucket.
NewLimiter(t) == [tokens |-> Burst, last |-> t]
\* limiter.Allow() at time t: the bucket gains one token per period elapsed,
\* up to the burst, and gives one token if it has one.
Allow(limiter, t) ==
  LET tokens == Min(Burst, limiter.tokens + (t - limiter.last))
  IN  IF tokens >= 1
        THEN [ok |-> TRUE, limiter |-> [tokens |-> tokens - 1, last |-> t]]
        ELSE [ok |-> FALSE, limiter |-> [tokens |-> tokens, last |-> t]]
\* No request: the value of rlast after a step in which no request was handled.
NoRequest == [peer |-> NoPeer, code |-> "none", handled |-> FALSE]

\* ------------------------------------------------------------------- state
VARIABLES
  conns,      \* client.conns: address -> channel (an object identity)
  services,   \* client.services: cacheKey -> invoker (an object identity)
  mu,         \* client.mu: the goroutines holding it shared, and the one holding it exclusively
  invokers,   \* the serviceInvoker objects built so far: identity -> serviceInfo
  pc,         \* each goroutine's position in Invoke / GetServiceInvoker
  call,       \* each goroutine's call in progress: arguments and locals
  last,       \* the call that returned in the step just taken: arguments, path, result
  ncalls,     \* calls started so far
  nchans,     \* channel objects built so far by grpc.NewClient
  created,    \* history: address -> number of channels built for it
  handed,     \* history: address -> channels getOrCreateConn returned for it
  fetched,    \* history: <<address, service>> -> reflection round trips run / succeeded
  given,      \* history: <<address, service>> -> invokers GetServiceInvoker returned
  closed,     \* the channels conn.Close() was called on
  ncloses,    \* Close calls started so far
  limiters,   \* ipRateLimiter.limiters: peer address string -> token bucket
  now,        \* the time of the rate limiter's clock, in token periods
  served,     \* history: IP -> requests of that IP handed to the handler
  rlast,      \* the request the rate limit interceptor handled in the step just taken
  nreqs,      \* requests received so far by the server
  parseIn,    \* the arguments of a call of parseServiceDescriptor
  parseOut,   \* what that call returned
  queues,     \* rabbitmq: the names of the declared queues
  broker,     \* rabbitmq: the messages ready in the broker's queue
  consuming,  \* rabbitmq: Consume has started its goroutine
  delivery,   \* rabbitmq: the message the goroutine's handler is running on
  deliveries, \* rabbitmq: message -> times it was delivered to the handler
  acks,       \* rabbitmq: message -> times it was acknowledged
  nacks,      \* rabbitmq: message -> times it was rejected with requeue
  nsent,      \* rabbitmq: messages published so far
  once,       \* mgo: the sync.Once of InitConnection has run its function
  dataStore,  \* mgo: the package's dataStore, "nil" or the database's name
  inits       \* mgo: the calls of InitConnection made, with their results

\* The state of the client's Close, and the state of the server's rate limiter.
closeVars == <<closed, ncloses>>
rateVars == <<limiters, now, served, rlast, nreqs>>
\* The state of the parts of the repository checked on their own.
parseVars == <<parseIn, parseOut>>
consumeVars == <<queues, broker, consuming, delivery, deliveries, acks, nacks, nsent>>
mgoVars == <<once, dataStore, inits>>
auxVars == <<parseVars, consumeVars, mgoVars>>
clientVars ==
  <<conns, services, mu, invokers, pc, call, last, ncalls, nchans, created, handed,
    fetched, given>>

vars == <<clientVars, closeVars, rateVars, auxVars>>

\* The (address, serviceName) arguments the callers use: every service name
\* on the address with a server, the unknown name on the address without one
\* (its cache key is that of "Greeter" on the other address), and one call to
\* the target that cannot be parsed.
Keys ==
  { <<AddrUp, "Greeter">>, <<AddrUp, "HelloRequest">>, <<AddrUp, "p/Greeter">>,
    <<AddrDown, "p/Greeter">>, <<AddrBad, "Greeter">> }

\* No call: the value of call[p] while p is idle, and of last after a step
\* in which no call returned.  Of a call, the record holds the arguments
\* (addr, svc, method, body), the entry point (op), the locals (conn, inv),
\* the result (resp, err) and the path taken: runs0 is the number of
\* reflection round trips already run for (addr, svc) when the call began, hit
\* says which look at the cache found the entry ("fast", "second" or "no"),
\* newconn that the call built a channel, fetch that it ran a reflection
\* round trip, rpc that it called conn.Invoke, connErr the error conn.Invoke
\* returned.  Of a call of Close, the
\* record holds the addresses of the pool when the iteration began (snap), the
\* addresses whose channel it has closed so far, in the order of the
\* iteration (tried), those whose close failed (failed), and firstErr (err).
\* Of a call of ezgrpc.Invoke, the record holds the request (req), the type
\* of the reply (rtype), whether grpcClt.Invoke was called (called) and
\* whether a reply was decoded (decoded).
NoCall ==
  [ op |-> "none", addr |-> "", svc |-> "", method |-> "", body |-> NilBody,
    runs0 |-> 0, conn |-> 0, inv |-> 0, hit |-> "no", newconn |-> FALSE,
    fetch |-> FALSE, rpc |-> FALSE, err |-> NoErr, resp |-> NilBody,
    connErr |-> NoErr, snap |-> {}, tried |-> <<>>, failed |-> <<>>,
    req |-> NoReq, rtype |-> "", called |-> FALSE, decoded |-> FALSE ]

\* NewClient: empty pool, empty cache, unlocked mutex.
InitClient ==
  /\ conns = EmptyMap
  /\ services = EmptyMap
  /\ mu = [readers |-> {}, writer |-> 0]
  /\ invokers = EmptyMap
  /\ pc = [p \in Procs \cup {Closer} |-> "idle"]
  /\ call = [p \in Procs \cup {Closer} |-> NoCall]
  /\ last = NoCall
  /\ ncalls = 0
  /\ nchans = 0
  /\ created = [a \in Addresses |-> 0]
  /\ handed = [a \in Addresses |-> {}]
  /\ fetched = [k \in Keys |-> [runs |-> 0, oks |-> 0]]
  /\ given = [k \in Keys |-> {}]
  /\ closed = {}
  /\ ncloses = 0
  /\ limiters = EmptyMap
  /\ now = 0
  /\ served = [ip \in IPs |-> 0]
  /\ rlast = NoRequest
  /\ nreqs = 0

\* No call of parseServiceDescriptor on its own.
NoParseIn == [files |-> <<>>, serviceName |-> ""]
NoParseOut == [done |-> FALSE, err |-> NoErr, info |-> NilInfo]

\* package rabbitmq after Init: no queue declared, nothing published.
InitConsume ==
  /\ queues = {}
  /\ broker = {}
  /\ consuming = FALSE
  /\ delivery = 0
  /\ deliveries = [m \in Messages |-> 0]
  /\ acks = [m \in Messages |-> 0]
  /\ nacks = [m \in Messages |-> 0]
  /\ nsent = 0

\* package mgo: var once sync.Once, var dataStore Datastore.
InitMgo ==
  /\ once = FALSE
  /\ dataStore = "nil"
  /\ inits = <<>>

Init ==
  /\ InitClient
  /\ parseIn = NoParseIn
  /\ parseOut = NoParseOut
  /\ InitConsume
  /\ InitMgo

\* --------------------------------------------------------------- the mutex
\* sync.RWMutex: RLock waits while a goroutine holds the lock exclusively,
\* Lock waits while any goroutine holds it in either mode.
CanRLock == mu.writer = 0
\* A mutex whose Lock waits for the readers only, not for a writer.
CanLock_NoExclusion == mu.readers = {}
CanLock == mu.writer = 0 /\ mu.readers = {}
RLock(p) == [mu EXCEPT !.readers = @ \cup {p}]
RUnlock(p) == [mu EXCEPT !.readers = @ \ {p}]
Lock(p) == [mu EXCEPT !.writer = p]
\* A return path that does not release the exclusive lock.
Unlock_Kept(p) == mu
Unlock(p) == [mu EXCEPT !.writer = IF @ = p THEN 0 ELSE @]

\* ----------------------------------------------------------------- actions
\* A goroutine enters GetServiceInvoker(address, serviceName): called by the
\* application, or as the first statement of client.Invoke.  Which of the two
\* it is has no effect before GetServiceInvoker returns, and is chosen there.
Call(p) ==
  /\ pc[p] = "idle"
  /\ ncalls < MaxCalls
  /\ \E k \in Keys :
       call' = [call EXCEPT ![p] = [NoCall EXCEPT !.op = "running", !.addr = k[1], !.svc = k[2],
                                                   !.runs0 = fetched[k].runs]]
  /\ pc' = [pc EXCEPT ![p] = "rlock"]
  /\ ncalls' = ncalls + 1
  /\ last' = NoCall
  /\ UNCHANGED <<closeVars, rateVars, auxVars, conns, services, mu, invokers, nchans, created, handed, fetched, given>>

\* ezgrpc.Invoke after grpcClt.Invoke returned, or after its own early
\* return: the error as it is, or the reply decoded into R.
FacadeReturn(c) ==
  LET err == IF c.err # NoErr THEN c.err ELSE jsonUnmarshal(c.resp, c.rtype)
  IN  [c EXCEPT !.op = "ezgrpc.Invoke", !.err = err, !.decoded = (err = NoErr)]

\* The call of p returns to the application with the record c; a call that
\* came through ezgrpc.Invoke returns through it.
Return(p, c) ==
  /\ call' = [call EXCEPT ![p] = NoCall]
  /\ pc' = [pc EXCEPT ![p] = "idle"]
  /\ last' = IF c.req # NoReq THEN FacadeReturn(c) ELSE c

\* p goes on to position at with the locals c; no call returns.
Goto(p, at, c) ==
  /\ call' = [call EXCEPT ![p] = c]
  /\ pc' = [pc EXCEPT ![p] = at]
  /\ last' = NoCall

\* GetServiceInvoker returns (inv, err) to its caller.  Called by the
\* application, the call is over.  Called by client.Invoke, the error is
\* wrapped and returned, or serviceInvoker.Invoke comes next.
AfterGet(p, c, inv, err) ==
  /\ \/ /\ c.req = NoReq
        /\ Return(p, [c EXCEPT !.op = "GetServiceInvoker", !.inv = inv, !.err = err])
     \/ IF err # NoErr
          THEN Return(p, [c EXCEPT !.op = "Invoke", !.inv = 0,
                                   !.err = Wrap(ErrServiceNotFound, err)])
          ELSE Goto(p, "invoke", [c EXCEPT !.op = "Invoke", !.inv = inv])
  /\ given' = IF err = NoErr
                THEN [given EXCEPT ![<<c.addr, c.svc>>] = @ \cup {inv}]
                ELSE given

\* GetServiceInvoker: c.mu.RLock()
GetRLock(p) ==
  /\ pc[p] = "rlock"
  /\ CanRLock
  /\ mu' = RLock(p)
  /\ Goto(p, "lookup", call[p])
  /\ UNCHANGED <<closeVars, rateVars, auxVars, conns, services, invokers, ncalls, nchans, created, handed, fetched, given>>

\* A first look at the cache that never finds the entry.
FirstLookup_Miss(key) == FALSE

\* info, exists := c.services[cacheKey], under the shared lock.
FirstLookup(key) == key \in DOMAIN services

\* GetServiceInvoker: info, exists := c.services[cacheKey]; c.mu.RUnlock();
\* if exists { return info, nil }
GetLookup(p) ==
  LET c == call[p]
      key == CacheKey(c.addr, c.svc)
  IN  /\ pc[p] = "lookup"
      /\ mu' = RUnlock(p)
      /\ IF FirstLookup(key)
           THEN AfterGet(p, [c EXCEPT !.hit = "fast"], services[key], NoErr)
           ELSE Goto(p, "lock", c) /\ given' = given
      /\ UNCHANGED <<closeVars, rateVars, auxVars, conns, services, invokers, ncalls, nchans, created, handed, fetched>>

\* GetServiceInvoker: c.mu.Lock(); defer c.mu.Unlock()
GetLock(p) ==
  /\ pc[p] = "lock"
  /\ CanLock
  /\ mu' = Lock(p)
  /\ Goto(p, "locked", call[p])
  /\ UNCHANGED <<closeVars, rateVars, auxVars, conns, services, invokers, ncalls, nchans, created, handed, fetched, given>>

\* getOrCreateConn without the look into the pool: a channel per call.
getOrCreateConn_NoReuse(address) ==
  IF NewClientFails(address)
    THEN [conns |-> conns, conn |-> 0, new |-> FALSE,
          err |-> Wrap(ErrConnectionFailed, Errorf("failed to connect"))]
    ELSE [conns |-> Put(conns, address, nchans + 1), conn |-> nchans + 1, new |-> TRUE,
          err |-> NoErr]

\* getOrCreateConn with a constructor that connects before it returns: it
\* fails for every address that has no server listening.
getOrCreateConn_Dials(address) ==
  IF address \in DOMAIN conns
    THEN [conns |-> conns, conn |-> conns[address], new |-> FALSE, err |-> NoErr]
  ELSE IF address # AddrUp
    THEN [conns |-> conns, conn |-> 0, new |-> FALSE,
          err |-> Wrap(ErrConnectionFailed, Errorf("failed to connect"))]
  ELSE [conns |-> Put(conns, address, nchans + 1), conn |-> nchans + 1, new |-> TRUE,
        err |-> NoErr]

\* getOrCreateConn(address): the pooled channel, or a new one that is added
\* to the pool.  The pool after the call, the channel and the error.
getOrCreateConn(address) ==
  IF address \in DOMAIN conns
    THEN [conns |-> conns, conn |-> conns[address], new |-> FALSE, err |-> NoErr]
  ELSE IF NewClientFails(address)
    THEN [conns |-> conns, conn |-> 0, new |-> FALSE,
          err |-> Wrap(ErrConnectionFailed, Errorf("failed to connect"))]
  ELSE [conns |-> Put(conns, address, nchans + 1), conn |-> nchans + 1, new |-> TRUE,
        err |-> NoErr]

\* GetServiceInvoker without the second look at the cache.
SecondLookup_Skipped(key) == FALSE

\* info, exists = c.services[cacheKey], under the exclusive lock.
SecondLookup(key) == key \in DOMAIN services

\* GetServiceInvoker under the exclusive lock: the second look at the cache,
\* then getOrCreateConn.  Every return releases the lock (the deferred Unlock).
GetLocked(p) ==
  LET c == call[p]
      key == CacheKey(c.addr, c.svc)
      got == getOrCreateConn(c.addr)
  IN  /\ pc[p] = "locked"
      /\ IF SecondLookup(key)
           THEN /\ AfterGet(p, [c EXCEPT !.hit = "second"], services[key], NoErr)
                /\ mu' = Unlock(p)
                /\ UNCHANGED <<conns, nchans, created, handed>>
         ELSE IF got.err # NoErr
           THEN /\ AfterGet(p, c, 0, got.err)
                /\ mu' = Unlock(p)
                /\ UNCHANGED <<conns, nchans, created, handed>>
         ELSE /\ conns' = got.conns
              /\ nchans' = IF got.new THEN nchans + 1 ELSE nchans
              /\ created' = IF got.new THEN [created EXCEPT ![c.addr] = @ + 1] ELSE created
              /\ handed' = [handed EXCEPT ![c.addr] = @ \cup {got.conn}]
              /\ Goto(p, "fetch", [c EXCEPT !.conn = got.conn, !.newconn = got.new])
              /\ mu' = mu
              /\ given' = given
      /\ UNCHANGED <<closeVars, rateVars, auxVars, services, invokers, ncalls, fetched>>

\* How the reflection exchange on the channel for an address can go: with no
\* server listening the stream never becomes ready and the context expires,
\* and no stream opens on a channel that was closed.
FetchTransports(address, conn) ==
  IF address = AddrUp /\ conn \notin closed THEN TransportOutcomes ELSE {"stream"}

\* A cache that is emptied when a fetch fails.
StoreFetched_Evicting(key, id, err) == IF err = NoErr THEN Put(services, key, id) ELSE EmptyMap

\* A cache that stores an entry for the key whether the fetch failed or not.
StoreFetched_Placeholder(key, id, err) == Put(services, key, id)

\* The cache after a fetch: the new invoker under the key, or, after a
\* failure, the cache as it was.
StoreFetched(key, id, err) == IF err = NoErr THEN Put(services, key, id) ELSE services

\* A GetServiceInvoker that closes the channel when the fetch on it failed.
ClosedAfterFetch_ClosesOnError(conn, err) ==
  IF err # NoErr THEN closed \cup {conn} ELSE closed

\* The closed channels after a fetch: the error return of GetServiceInvoker
\* makes no call of conn.Close().
ClosedAfterFetch(conn, err) == closed

\* GetServiceInvoker: fetchServiceInfoFromServer, then either the wrapped
\* error, or the new invoker stored in the cache; the deferred Unlock.
GetFetch(p) ==
  LET c == call[p]
      key == CacheKey(c.addr, c.svc)
      id == Cardinality(DOMAIN invokers) + 1
  IN  /\ pc[p] = "fetch"
      /\ \E t \in FetchTransports(c.addr, c.conn), r \in Responses(c.svc) :
           LET f == fetchServiceInfoFromServer(t, r, c.svc)
               err == IF f.err # NoErr THEN Wrap(ErrFetchServerInfoFailed, f.err) ELSE NoErr
           IN  /\ services' = StoreFetched(key, id, f.err)
               /\ invokers' = IF f.err = NoErr
                                THEN Put(invokers, id, [conn |-> c.conn, Name |-> f.info.Name,
                                                         Methods |-> f.info.Methods])
                                ELSE invokers
               /\ AfterGet(p, [c EXCEPT !.fetch = TRUE], IF f.err = NoErr THEN id ELSE 0, err)
               /\ fetched' = [fetched EXCEPT ![<<c.addr, c.svc>>] =
                                [runs |-> @.runs + 1,
                                 oks |-> @.oks + (IF f.err = NoErr THEN 1 ELSE 0)]]
               /\ closed' = ClosedAfterFetch(c.conn, f.err)
      /\ mu' = Unlock(p)
      /\ UNCHANGED <<ncloses, rateVars, auxVars, conns, ncalls, nchans, created, handed>>

\* serviceInvoker.Invoke returning the method lookup's error unwrapped.
InvokeChecks_NoSentinel(info, method, body) ==
  IF method \notin DOMAIN info.Methods
    THEN [err |-> Errorf("method not found in service"), rpc |-> FALSE]
  ELSE IF info.Methods[method].IsStream
    THEN [err |-> Errorf("streaming RPCs are not supported"), rpc |-> FALSE]
  ELSE IF ~body.isNil /\ ~protojsonUnmarshal(body.toks, info.Methods[method].InputType)
    THEN [err |-> Wrap(ErrInvalidRequest, Errorf("failed to unmarshal JSON into request")),
          rpc |-> FALSE]
  ELSE [err |-> NoErr, rpc |-> TRUE]

\* serviceInvoker.Invoke without the streaming check.
InvokeChecks_NoStreamCheck(info, method, body) ==
  IF method \notin DOMAIN info.Methods
    THEN [err |-> Wrap(ErrMethodNotFound, Errorf("method not found in service")), rpc |-> FALSE]
  ELSE IF ~body.isNil /\ ~protojsonUnmarshal(body.toks, info.Methods[method].InputType)
    THEN [err |-> Wrap(ErrInvalidRequest, Errorf("failed to unmarshal JSON into request")),
          rpc |-> FALSE]
  ELSE [err |-> NoErr, rpc |-> TRUE]

\* serviceInvoker.Invoke dropping the error of protojson.Unmarshal.
InvokeChecks_NoParseCheck(info, method, body) ==
  IF method \notin DOMAIN info.Methods
    THEN [err |-> Wrap(ErrMethodNotFound, Errorf("method not found in service")), rpc |-> FALSE]
  ELSE IF info.Methods[method].IsStream
    THEN [err |-> Errorf("streaming RPCs are not supported"), rpc |-> FALSE]
  ELSE [err |-> NoErr, rpc |-> TRUE]

\* serviceInvoker.Invoke parsing the request only after conn.Invoke was called.
InvokeChecks_RPCFirst(info, method, body) ==
  IF method \notin DOMAIN info.Methods
    THEN [err |-> Wrap(ErrMethodNotFound, Errorf("method not found in service")), rpc |-> FALSE]
  ELSE IF info.Methods[method].IsStream
    THEN [err |-> Errorf("streaming RPCs are not supported"), rpc |-> FALSE]
  ELSE IF ~body.isNil /\ ~protojsonUnmarshal(body.toks, info.Methods[method].InputType)
    THEN [err |-> Wrap(ErrInvalidRequest, Errorf("failed to unmarshal JSON into request")),
          rpc |-> TRUE]
  ELSE [err |-> NoErr, rpc |-> TRUE]

\* serviceInvoker.Invoke up to the call on the channel: the method lookup,
\* the streaming check and the parse of the request.  The error returned
\* before conn.Invoke is reached, or NoErr and conn.Invoke is called (rpc).
InvokeChecks(info, method, body) ==
  IF method \notin DOMAIN info.Methods
    THEN [err |-> Wrap(ErrMethodNotFound, Errorf("method not found in service")), rpc |-> FALSE]
  ELSE IF info.Methods[method].IsStream
    THEN [err |-> Errorf("streaming RPCs are not supported"), rpc |-> FALSE]
  ELSE IF ~body.isNil /\ ~protojsonUnmarshal(body.toks, info.Methods[method].InputType)
    THEN [err |-> Wrap(ErrInvalidRequest, Errorf("failed to unmarshal JSON into request")),
          rpc |-> FALSE]
  ELSE [err |-> NoErr, rpc |-> TRUE]

\* client.Invoke after GetServiceInvoker succeeded: serviceInvoker.Invoke
\* with the caller's method and payload, up to the start of conn.Invoke.
InvokerInvoke(p) ==
  LET c == call[p]
  IN  /\ pc[p] = "invoke"
      /\ \E m \in MethodNames, b \in (IF c.req = NoReq THEN Bodies ELSE {c.body}) :
           LET r == InvokeChecks(invokers[c.inv], m, b)
               c2 == [c EXCEPT !.method = m, !.body = b, !.rpc = r.rpc]
           IN  IF r.err # NoErr
                 THEN Return(p, [c2 EXCEPT !.err = r.err])
                 ELSE Goto(p, "rpc", c2)
      /\ UNCHANGED <<closeVars, rateVars, auxVars, conns, services, mu, invokers, ncalls, nchans, created, handed,
                     fetched, given>>

\* protojson.Marshal(responseProto): one JSON object with the populated
\* fields of the reply; the Greeter handler populates every field.
protojsonMarshal(descriptor) ==
  Body(FALSE, <<"{">> \o (CHOOSE q \in [1..Cardinality(descriptor.fields) -> descriptor.fields] :
                            Range(q) = descriptor.fields) \o <<"}">>)

\* serviceInvoker.Invoke marshalling the response message whatever the
\* call on the channel returned.
InvokeResult_DecodeFirst(info, method, outcome) ==
  [resp |-> protojsonMarshal(info.Methods[method].OutputType),
   err |-> IF outcome # "ok" THEN RPCError(outcome) ELSE NoErr]

\* serviceInvoker.Invoke wrapping the error of the call on the channel in
\* one of the client's sentinels.
InvokeResult_Wrapped(info, method, outcome) ==
  IF outcome # "ok"
    THEN [resp |-> NilBody, err |-> Wrap(ErrInvalidRequest, RPCError(outcome))]
    ELSE [resp |-> protojsonMarshal(info.Methods[method].OutputType), err |-> NoErr]

\* What serviceInvoker.Invoke returns once conn.Invoke has returned.
InvokeResult(info, method, outcome) ==
  IF outcome # "ok"
    THEN [resp |-> NilBody, err |-> RPCError(outcome)]
    ELSE [resp |-> protojsonMarshal(info.Methods[method].OutputType), err |-> NoErr]

\* How conn.Invoke on a channel can end: a closed channel cancels the call.
ConnInvoke(conn) == IF conn \in closed THEN {RPCCanceled} ELSE RPCOutcomes

\* serviceInvoker.Invoke: conn.Invoke returns.
InvokerRPC(p) ==
  LET c == call[p]
  IN  /\ pc[p] = "rpc"
      /\ \E o \in ConnInvoke(invokers[c.inv].conn) :
           LET r == InvokeResult(invokers[c.inv], c.method, o)
           IN  Return(p, [c EXCEPT !.resp = r.resp, !.err = r.err,
                                   !.connErr = IF o = "ok" THEN NoErr ELSE RPCError(o)])
      /\ UNCHANGED <<closeVars, rateVars, auxVars, conns, services, mu, invokers, ncalls, nchans, created, handed,
                     fetched, given>>

\* A goroutine inside a call takes its next step.
Proceed(p) ==
  \/ GetRLock(p)
  \/ GetLookup(p)
  \/ GetLock(p)
  \/ GetLocked(p)
  \/ GetFetch(p)
  \/ InvokerInvoke(p)
  \/ InvokerRPC(p)

Next ==
  \E p \in Procs :
    \/ Call(p)
    \/ Proceed(p)

Spec == Init /\ [][Next]_vars

\* The goroutines are scheduled and the network operations terminate: a
\* goroutine that can take its next step eventually takes it.
SpecFair == Spec /\ \A p \in Procs : WF_vars(Proceed(p))

\* ---------------------------------------------------------- ezgrpc.Invoke
\* ezgrpc.Invoke[T, R](ctx, addr, service, method, req): the nil check and
\* json.Marshal, then grpcClt.Invoke with the marshalled request.
FacadeInvoke(p) ==
  /\ pc[p] = "idle"
  /\ ncalls < MaxCalls
  /\ ncalls' = ncalls + 1
  /\ \E req \in Requests, rtype \in ResponseTypes, k \in Keys :
       LET c == [NoCall EXCEPT !.op = "running", !.addr = k[1], !.svc = k[2],
                               !.runs0 = fetched[k].runs, !.req = req, !.rtype = rtype]
           m == jsonMarshal(req)
       IN  IF isNil(req)
             THEN Return(p, [c EXCEPT !.err = Errorf("request is nil")])
           ELSE IF m.err # NoErr
             THEN Return(p, [c EXCEPT !.err = m.err])
           ELSE Goto(p, "rlock", [c EXCEPT !.body = m.body, !.called = TRUE])
  /\ UNCHANGED <<closeVars, rateVars, auxVars, conns, services, mu, invokers, nchans, created, handed,
                 fetched, given>>

NextFacade ==
  \/ Next
  \/ \E p \in Procs : FacadeInvoke(p)

\* The client called directly and through the package's generic facade.
SpecFacade == Init /\ [][NextFacade]_vars

\* ------------------------------------------------------------------- Close
\* conn.Close(): grpc.ErrClientConnClosing on a channel already closed.
ErrClientConnClosing == Errorf("grpc: the client connection is closing")
connClose(conn) == IF conn \in closed THEN ErrClientConnClosing ELSE NoErr

\* fmt.Errorf("failed to close connection to %s: %w", addr, err)
CloseError(addr, err) ==
  [kind |-> "failed to close connection to " \o addr, is |-> {err.kind} \cup err.is]

\* Close keeping the error of the last failing close.
CloseFirstErr_Last(firstErr, addr, err) ==
  IF err # NoErr THEN CloseError(addr, err) ELSE firstErr

\* if err := conn.Close(); err != nil && firstErr == nil { firstErr = ... }
CloseFirstErr(firstErr, addr, err) ==
  IF err # NoErr /\ firstErr = NoErr THEN CloseError(addr, err) ELSE firstErr

\* Close: var firstErr error; the range over c.conns begins.  The mutex is
\* not taken.
CloseBegin(p) ==
  /\ pc[p] = "idle"
  /\ ncloses < MaxCloses
  /\ ncloses' = ncloses + 1
  /\ Goto(p, "close", [NoCall EXCEPT !.op = "Close", !.snap = DOMAIN conns])
  /\ UNCHANGED <<closed, rateVars, auxVars, conns, services, mu, invokers, ncalls, nchans, created,
                 handed, fetched, given>>

\* A Close that deletes from the pool the entry whose channel it closed.
ConnsAfterClose_Deletes(addr) == [a \in DOMAIN conns \ {addr} |-> conns[a]]

\* The pool after an iteration of Close: the loop body calls conn.Close()
\* and writes nothing to c.conns.
ConnsAfterClose(addr) == conns

\* Close: one iteration of the range, in the map's order (any order): an
\* entry not yet visited, also one inserted since the range began.
CloseConn(p) ==
  LET c == call[p]
  IN  /\ pc[p] = "close"
      /\ \E addr \in DOMAIN conns \ Range(c.tried) :
           LET err == connClose(conns[addr])
           IN  /\ closed' = closed \cup {conns[addr]}
               /\ conns' = ConnsAfterClose(addr)
               /\ Goto(p, "close",
                       [c EXCEPT !.tried = Append(@, addr),
                                 !.failed = IF err # NoErr THEN Append(@, addr) ELSE @,
                                 !.err = CloseFirstErr(c.err, addr, err)])
      /\ UNCHANGED <<ncloses, rateVars, auxVars, services, mu, invokers, ncalls, nchans,
                     created, handed, fetched, given>>

\* Close: the range is over once every entry it began with was visited;
\* return firstErr.
CloseReturn(p) ==
  LET c == call[p]
  IN  /\ pc[p] = "close"
      /\ c.snap \subseteq Range(c.tried)
      /\ Return(p, c)
      /\ UNCHANGED <<closeVars, rateVars, auxVars, conns, services, mu, invokers, ncalls, nchans,
                     created, handed, fetched, given>>

\* The goroutine that uses the client while its owner closes it.
User == 1

NextClose ==
  \/ Call(User)
  \/ Proceed(User)
  \/ CloseBegin(Closer)
  \/ CloseConn(Closer)
  \/ CloseReturn(Closer)

\* The client used by one goroutine and closed, any number of times, by
\* its owner.
SpecClose == Init /\ [][NextClose]_vars

\* -------------------------------------------------------- the rate limiter
\* getLimiter(ip): the limiter stored under the string, or a new one that is
\* stored under it (under l.mu).
getLimiter(key) == IF key \in DOMAIN limiters THEN limiters[key] ELSE NewLimiter(now)

\* The interceptor returned by UnaryServerInterceptor, for one request: the
\* peer of the context, its limiter, Allow, and the handler if allowed.
RateLimitInterceptor ==
  /\ nreqs < MaxRequests
  /\ nreqs' = nreqs + 1
  /\ \E peer \in Peers \cup {NoPeer} :
       IF peer = NoPeer
         THEN /\ rlast' = [peer |-> peer, code |-> "Internal", handled |-> FALSE]
              /\ UNCHANGED <<limiters, served>>
         ELSE LET key == AddrString(peer)
                  a == Allow(getLimiter(key), now)
              IN  /\ limiters' = Put(limiters, key, a.limiter)
                  /\ IF a.ok
                       THEN /\ rlast' = [peer |-> peer, code |-> "OK", handled |-> TRUE]
                            /\ served' = [served EXCEPT ![peer.ip] = @ + 1]
                       ELSE /\ rlast' = [peer |-> peer, code |-> "ResourceExhausted",
                                         handled |-> FALSE]
                            /\ served' = served
  /\ UNCHANGED <<now, clientVars, closeVars, auxVars>>

\* One token period passes.
Tick ==
  /\ now < MaxTicks
  /\ now' = now + 1
  /\ rlast' = NoRequest
  /\ UNCHANGED <<limiters, served, nreqs, clientVars, closeVars, auxVars>>

NextRate == RateLimitInterceptor \/ Tick

\* The server's rate limit interceptor and its clock.
SpecRate == Init /\ [][NextRate]_vars

\* -------------------------------------------------- parseServiceDescriptor
\* The calls of parseServiceDescriptor checked on their own: up to MaxFiles
\* files in any order, and a requested name.
ParseInputs ==
  { [files |-> fs, serviceName |-> n] :
      fs \in UNION {[1..k -> ParseFiles] : k \in 0..MaxFiles}, n \in ParseNames }

InitParse ==
  /\ InitClient
  /\ parseIn \in ParseInputs
  /\ parseOut = NoParseOut
  /\ InitConsume
  /\ InitMgo

\* parseServiceDescriptor(fileDescriptorProtos, serviceName) returns.
Parse ==
  /\ ~parseOut.done
  /\ LET r == parseServiceDescriptor(parseIn.files, parseIn.serviceName)
     IN  parseOut' = [done |-> TRUE, err |-> r.err, info |-> r.info]
  /\ UNCHANGED <<parseIn, clientVars, closeVars, rateVars, consumeVars, mgoVars>>

SpecParse == InitParse /\ [][Parse]_vars

\* ---------------------------------------------------------------- rabbitmq
\* DeclareQueue(name): channel.QueueDeclare, then queues[name] = q.
DeclareQueue(name) ==
  /\ name \notin queues
  /\ queues' = queues \cup {name}
  /\ UNCHANGED <<broker, consuming, delivery, deliveries, acks, nacks, nsent>>
  /\ UNCHANGED <<clientVars, closeVars, rateVars, parseVars, mgoVars>>

\* Send(queue, body) on a declared queue: the message is published; on an
\* undeclared queue Send returns an error and changes nothing.
Send(queue) ==
  /\ queue \in queues
  /\ nsent < MaxSent
  /\ nsent' = nsent + 1
  /\ broker' = broker \cup {nsent + 1}
  /\ UNCHANGED <<queues, consuming, delivery, deliveries, acks, nacks>>
  /\ UNCHANGED <<clientVars, closeVars, rateVars, parseVars, mgoVars>>

\* Consume(queue, handler) on a declared queue: channel.Consume with
\* auto-ack off, and the goroutine that ranges over msgs is started.
Consume(queue) ==
  /\ queue \in queues
  /\ ~consuming
  /\ consuming' = TRUE
  /\ UNCHANGED <<queues, broker, delivery, deliveries, acks, nacks, nsent>>
  /\ UNCHANGED <<clientVars, closeVars, rateVars, parseVars, mgoVars>>

\* for d := range msgs: the broker delivers a ready message and the
\* goroutine calls handler(string(d.Body)).
Deliver ==
  /\ consuming
  /\ delivery = 0
  /\ \E m \in broker :
       /\ deliveries[m] < MaxDeliveries
       /\ broker' = broker \ {m}
       /\ delivery' = m
       /\ deliveries' = [deliveries EXCEPT ![m] = @ + 1]
  /\ UNCHANGED <<queues, consuming, acks, nacks, nsent>>
  /\ UNCHANGED <<clientVars, closeVars, rateVars, parseVars, mgoVars>>

\* The handler returned an error: d.Nack(false, true), and the broker puts
\* the message back in the queue.
HandlerFails ==
  /\ delivery # 0
  /\ nacks' = [nacks EXCEPT ![delivery] = @ + 1]
  /\ broker' = broker \cup {delivery}
  /\ delivery' = 0
  /\ UNCHANGED <<queues, consuming, deliveries, acks, nsent>>
  /\ UNCHANGED <<clientVars, closeVars, rateVars, parseVars, mgoVars>>

\* The handler returned nil: d.Ack(false), and the broker drops the message.
HandlerSucceeds ==
  /\ delivery # 0
  /\ acks' = [acks EXCEPT ![delivery] = @ + 1]
  /\ delivery' = 0
  /\ UNCHANGED <<queues, broker, consuming, deliveries, nacks, nsent>>
  /\ UNCHANGED <<clientVars, closeVars, rateVars, parseVars, mgoVars>>

NextConsume ==
  \/ \E name \in QueueNames : DeclareQueue(name)
  \/ \E queue \in QueueNames : Send(queue)
  \/ \E queue \in QueueNames : Consume(queue)
  \/ Deliver
  \/ HandlerFails
  \/ HandlerSucceeds

\* One queue, its publisher and its consumer.
SpecConsume == Init /\ [][NextConsume]_vars

\* --------------------------------------------------------------------- mgo
\* What mongo.Connect and client.Ping answer for a URI.
ConnectFails(uri) == uri = "bad-uri"
PingFails(uri) == uri = "mongodb://down"

\* The function handed to once.Do: the error it leaves in err.
InitOnce(uri) ==
  IF ConnectFails(uri) THEN Wrap(MgoErrConnectionFailed, Errorf("connect"))
  ELSE IF PingFails(uri) THEN Wrap(ErrPingFailed, Errorf("ping"))
  ELSE NoErr

\* once.Do(f) calls f if and only if Do is being called for the first time.
OnceDo(done) == ~done

\* InitConnection(ctx, dbName, WithURI(uri)): var err error; once.Do(...);
\* return err.
InitConnection(dbName, uri) ==
  /\ Len(inits) < MaxInits
  /\ LET runs == OnceDo(once)
         err == IF runs THEN InitOnce(uri) ELSE NoErr
     IN  /\ once' = TRUE
         /\ dataStore' = IF runs /\ err = NoErr THEN dbName ELSE dataStore
         /\ inits' = Append(inits, [dbName |-> dbName, uri |-> uri, err |-> err])
  /\ UNCHANGED <<clientVars, closeVars, rateVars, parseVars, consumeVars>>

NextMgo == \E dbName \in DbNames, uri \in MongoURIs : InitConnection(dbName, uri)

\* The calls of InitConnection of one process.
SpecMgo == Init /\ [][NextMgo]_vars

\* ------------------------------------------------------------------ claims
\* What the finished call's path was.
LastKey == <<last.addr, last.svc>>
LastInvoked == last.op = "Invoke" /\ last.inv # 0
LastMethods == invokers[last.inv].Methods
StreamingErr == Errorf("streaming RPCs are not supported")
\* The local errors of an invocation: method not found, streaming method,
\* invalid request.
LocalError(err) ==
  \/ ErrorsIs(err, ErrMethodNotFound)
  \/ ErrorsIs(err, ErrInvalidRequest)
  \/ err.kind = StreamingErr.kind
\* Payloads that are not a JSON object of the input message: the empty text,
\* an unterminated object, an object with a member the message does not have.
InvalidBodies ==
  {Body(FALSE, <<>>), Body(FALSE, <<"{", "name">>), Body(FALSE, <<"{", "zzz", "}">>)}

\* C1: whatever the interleaving of the callers, at most one channel is ever
\* built for an address, every channel getOrCreateConn returns for an address
\* is the one the pool holds for it, and a caller that is fetching over a
\* channel holds the pooled channel of its address.
C1_OneChannelPerAddress ==
  /\ \A a \in Addresses : created[a] <= 1
  /\ \A a \in Addresses : handed[a] # {} => a \in DOMAIN conns /\ handed[a] = {conns[a]}
  /\ \A p \in Procs : pc[p] = "fetch" =>
       call[p].addr \in DOMAIN conns /\ call[p].conn = conns[call[p].addr]

\* C1 witness: a second caller for an address got the channel an earlier
\* caller built, and is fetching over it.
C1_Witness ==
  \E p \in Procs :
    /\ pc[p] = "fetch"
    /\ ~call[p].newconn
    /\ created[call[p].addr] = 1
    /\ call[p].conn = conns[call[p].addr]

\* C2 as stated: a caller that runs a reflection round trip for its key sees
\* exactly one round trip for that key between its call and its return,
\* its own, whoever else is calling for the key at the same time.
C2_Original ==
  (last.op # "none" /\ last.fetch) => fetched[LastKey].runs - last.runs0 = 1

\* C2 as amended: for every (address, service) at most one reflection round
\* trip succeeds, no round trip is run for a key that is cached, and all
\* callers that return an invoker return the one the cache holds.
C2_OneResolve ==
  /\ \A k \in Keys :
       /\ fetched[k].oks <= 1
       /\ Cardinality(given[k]) <= 1
       /\ given[k] # {} =>
            /\ CacheKey(k[1], k[2]) \in DOMAIN services
            /\ given[k] = {services[CacheKey(k[1], k[2])]}
  /\ \A p \in Procs :
       pc[p] = "fetch" => CacheKey(call[p].addr, call[p].svc) \notin DOMAIN services

\* C2 witness: a caller that missed the cache under the shared lock found,
\* under the exclusive lock, the invoker another caller had stored meanwhile.
C2_Witness ==
  /\ last.hit = "second"
  /\ last.err = NoErr
  /\ fetched[LastKey].oks = 1
  /\ given[LastKey] = {last.inv}

\* C3: while one caller is inside the reflection fetch, a caller for another
\* address, or for a service that is cached, can take the shared lock for its
\* lookup.
C3_UnrelatedNotBlocked ==
  \A p, q \in Procs :
    ( /\ pc[p] = "fetch"
      /\ pc[q] = "rlock"
      /\ \/ call[q].addr # call[p].addr
         \/ CacheKey(call[q].addr, call[q].svc) \in DOMAIN services )
    => ENABLED GetRLock(q)

\* C4: an invocation of a method that is not in the schema's method map
\* returns an error that matches ErrMethodNotFound without calling
\* conn.Invoke, and no call in flight on a channel is for such a method.
C4_MethodNotFound ==
  /\ (LastInvoked /\ last.method \notin DOMAIN LastMethods) =>
       /\ ErrorsIs(last.err, ErrMethodNotFound)
       /\ ~last.rpc
       /\ last.resp = NilBody
  /\ \A p \in Procs :
       pc[p] = "rpc" => call[p].method \in DOMAIN invokers[call[p].inv].Methods

\* C4 witness: an invocation of the method "Nope", which the service lacks.
C4_Witness ==
  /\ LastInvoked
  /\ last.method = "Nope"
  /\ last.method \notin DOMAIN LastMethods
  /\ ErrorsIs(last.err, ErrMethodNotFound)

\* C5: an invocation of a method whose schema has the streaming flag set
\* returns the streaming-not-supported error without calling conn.Invoke,
\* whatever the payload, and no call in flight is for a streaming method.
C5_StreamingRejected ==
  /\ (LastInvoked /\ last.method \in DOMAIN LastMethods /\ LastMethods[last.method].IsStream) =>
       /\ last.err = StreamingErr
       /\ ~last.rpc
       /\ last.resp = NilBody
  /\ \A p \in Procs :
       pc[p] = "rpc" => ~invokers[call[p].inv].Methods[call[p].method].IsStream

\* C5 witness: a streaming method invoked with a payload that is not JSON.
C5_Witness ==
  /\ LastInvoked
  /\ last.method = "SayHelloStream"
  /\ LastMethods[last.method].IsStream
  /\ last.body = Body(FALSE, <<"{", "name">>)
  /\ last.err = StreamingErr

\* C6: an invocation of a unary method of the schema with a payload that is
\* not a JSON object of the input message returns an error that matches
\* ErrInvalidRequest without calling conn.Invoke; an error of conn.Invoke
\* never matches ErrInvalidRequest.
C6_InvalidRequest ==
  /\ ( /\ LastInvoked
       /\ last.method \in DOMAIN LastMethods
       /\ ~LastMethods[last.method].IsStream
       /\ last.body \in InvalidBodies ) =>
       /\ ErrorsIs(last.err, ErrInvalidRequest)
       /\ ~last.rpc
       /\ last.err \notin {RPCError(o) : o \in RPCOutcomes}
  /\ (last.rpc /\ last.err # NoErr) => ~ErrorsIs(last.err, ErrInvalidRequest)
  /\ \A p \in Procs : pc[p] = "rpc" => call[p].body \notin InvalidBodies

\* C6 witness: the unary method invoked with an unterminated JSON object.
C6_Witness ==
  /\ LastInvoked
  /\ last.method = "SayHello"
  /\ last.body = Body(FALSE, <<"{", "name">>)
  /\ ErrorsIs(last.err, ErrInvalidRequest)

\* C7: client.Invoke for a service the peer does not have returns an error
\* that matches ErrServiceNotFound and does not match ErrFetchServerInfoFailed.
C7_ServiceNotFoundOnly ==
  ( /\ last.op = "Invoke"
    /\ last.fetch
    /\ last.err.kind \in { "server reflection error",
                           "service not found in file descriptors" } )
  => /\ ErrorsIs(last.err, ErrServiceNotFound)
     /\ ~ErrorsIs(last.err, ErrFetchServerInfoFailed)

\* C8 as stated: client.Invoke against the address without a server returns
\* an error that matches ErrConnectionFailed, from the creation of the channel.
C8_Original ==
  (last.op = "Invoke" /\ last.addr = AddrDown) =>
    ErrorsIs(last.err, ErrConnectionFailed) /\ ~last.fetch

\* C8 as amended: client.Invoke against a well-formed address without a
\* server, for a key that is not cached, gets its channel and fails in the
\* reflection fetch: the error matches ErrFetchServerInfoFailed and
\* ErrServiceNotFound, not ErrConnectionFailed.  An error that matches
\* ErrConnectionFailed comes only from a target grpc.NewClient rejects.
C8_UnreachableFailsInFetch ==
  /\ (last.op = "Invoke" /\ last.addr = AddrDown /\ last.hit = "no") =>
       /\ last.conn # 0
       /\ last.fetch
       /\ last.err.kind = "failed to create reflection stream"
       /\ ErrorsIs(last.err, ErrFetchServerInfoFailed)
       /\ ErrorsIs(last.err, ErrServiceNotFound)
       /\ ~ErrorsIs(last.err, ErrConnectionFailed)
  /\ (last.op # "none" /\ ErrorsIs(last.err, ErrConnectionFailed)) =>
       NewClientFails(last.addr) /\ ~last.fetch

\* C8 witness: an Invoke against the address without a server has failed.
C8_Witness ==
  /\ last.op = "Invoke"
  /\ last.addr = AddrDown
  /\ last.hit = "no"
  /\ ErrorsIs(last.err, ErrFetchServerInfoFailed)

\* C9 as stated: a client.Invoke that ends with a local error built no
\* channel, ran no reflection round trip and called no conn.Invoke.
C9_Original ==
  (last.op = "Invoke" /\ LocalError(last.err)) =>
    ~last.newconn /\ ~last.fetch /\ ~last.rpc

\* C9 as amended: a client.Invoke that ends with a local error called no
\* conn.Invoke; if its lookup hit the cache it built no channel and ran no
\* reflection round trip either; if it missed, it ran the round trip first.
C9_LocalErrorsBeforeRPC ==
  (last.op = "Invoke" /\ LocalError(last.err)) =>
    /\ ~last.rpc
    /\ last.hit # "no" => ~last.newconn /\ ~last.fetch
    /\ last.hit = "no" => last.fetch

\* C9 witness: an Invoke served from the cache ended with a local error.
C9_Witness ==
  /\ last.op = "Invoke"
  /\ LocalError(last.err)
  /\ last.hit = "fast"
  /\ ~last.fetch

\* C10: a step of GetServiceInvoker under the exclusive lock that returns an
\* error (the channel could not be built, or the fetch failed) leaves the
\* cache and the invokers as they were, and every cache entry is a complete
\* invoker: a named service with its methods and a channel.
C10_FailedResolveLeavesCache ==
  [][ /\ \A p \in Procs :
           (pc[p] \in {"locked", "fetch"} /\ pc'[p] = "idle" /\ last'.err # NoErr) =>
             services' = services /\ invokers' = invokers
      /\ \A key \in DOMAIN services' :
           /\ services'[key] \in DOMAIN invokers'
           /\ invokers'[services'[key]].Name # NilInfo.Name
           /\ invokers'[services'[key]].conn # 0 ]_vars

\* C10 witness: a fetch has failed and the key of the call is not cached.
C10_Witness ==
  /\ last.op = "GetServiceInvoker"
  /\ last.fetch
  /\ ErrorsIs(last.err, ErrFetchServerInfoFailed)
  /\ last.inv = 0
  /\ CacheKey(last.addr, last.svc) \notin DOMAIN services

\* C11: no step of any Invoke / GetServiceInvoker call, successful or failing,
\* removes an address from the pool or a key from the cache, or makes one map
\* to another object: what conns and services hold, they hold in every later
\* state.
C11_EntriesPersist ==
  [][ /\ \A a \in DOMAIN conns : a \in DOMAIN conns' /\ conns'[a] = conns[a]
      /\ \A key \in DOMAIN services :
           key \in DOMAIN services' /\ services'[key] = services[key] ]_vars

\* C11 witness: with a channel pooled and an invoker cached, a later call
\* for the same address has failed in its fetch and returned.
C11_Witness ==
  /\ last.op # "none"
  /\ last.fetch
  /\ last.err # NoErr
  /\ ~last.newconn
  /\ last.addr \in DOMAIN conns
  /\ \E key \in DOMAIN services : invokers[services[key]].conn = conns[last.addr]

\* C12: a Close that returns has called conn.Close() on the channel of every
\* address the pool held when it began, whether or not closes before it
\* failed, and it returns nil if no close failed and otherwise the error
\* built for the first address, in the order of its iteration, whose close
\* failed.
C12_CloseAllFirstError ==
  last.op = "Close" =>
    /\ last.snap \subseteq Range(last.tried)
    /\ \A addr \in last.snap : conns[addr] \in closed
    /\ Range(last.failed) \subseteq Range(last.tried)
    /\ last.err = IF last.failed = <<>>
                    THEN NoErr
                    ELSE CloseError(last.failed[1], ErrClientConnClosing)

\* C12 witness: a Close over two channels whose first close failed and
\* whose second close, made all the same, succeeded; it returned an error.
C12_Witness ==
  /\ last.op = "Close"
  /\ Len(last.tried) = 2
  /\ last.failed = <<last.tried[1]>>
  /\ last.err # NoErr

\* Two closes of one Close failed: the case in which the first error and
\* the last differ.
C12_WitnessTwoFailed ==
  /\ last.op = "Close"
  /\ Len(last.failed) = 2

\* The request of the call c was built: its method is a unary method of the
\* resolved service and its payload, unless nil, parsed into the input message.
RequestBuilt(c) ==
  /\ c.inv # 0
  /\ c.method \in DOMAIN invokers[c.inv].Methods
  /\ ~invokers[c.inv].Methods[c.method].IsStream
  /\ c.body.isNil \/ protojsonUnmarshal(c.body.toks, invokers[c.inv].Methods[c.method].InputType)

\* C13: the steps of one client.Invoke come in the order channel, schema,
\* request, call, response.  A goroutine that is fetching holds its channel
\* and has no schema yet; one that is about to build the request holds the
\* schema and has not called; one that is in the call has built the request
\* and has no response yet.  A returned Invoke has a response only after a
\* call that succeeded, made a call only after the request was built, fetched
\* only over a channel it obtained, and after a failure of any step made none
\* of the later ones; a successful one made them all.
C13_StepsInOrder ==
  /\ \A p \in Procs :
       /\ pc[p] = "fetch" =>
            call[p].conn # 0 /\ call[p].inv = 0 /\ call[p].method = "" /\ ~call[p].rpc
       /\ pc[p] = "invoke" =>
            call[p].inv # 0 /\ call[p].method = "" /\ ~call[p].rpc /\ call[p].resp = NilBody
       /\ pc[p] = "rpc" =>
            RequestBuilt(call[p]) /\ call[p].rpc /\ call[p].resp = NilBody
  /\ last.op = "Invoke" =>
       /\ last.fetch => last.conn # 0
       /\ last.inv # 0 => last.hit # "no" \/ last.fetch
       /\ last.inv = 0 => last.method = "" /\ ~last.rpc /\ last.err # NoErr
       /\ last.rpc => RequestBuilt(last)
       /\ last.resp # NilBody => last.rpc /\ last.connErr = NoErr /\ last.err = NoErr
       /\ last.err # NoErr => last.resp = NilBody
       /\ last.err = NoErr => last.rpc /\ last.resp # NilBody

\* C13 witness: one successful Invoke built its channel, fetched the schema,
\* built the request from a JSON payload, made the call and decoded the
\* response.
C13_Witness ==
  /\ last.op = "Invoke"
  /\ last.err = NoErr
  /\ last.newconn /\ last.fetch /\ last.rpc
  /\ ~last.body.isNil
  /\ last.resp # NilBody

\* C14: when conn.Invoke returns an error, Invoke returns that very error,
\* which matches none of the client's sentinels, and no response bytes.
C14_RPCErrorAsIs ==
  (last.op = "Invoke" /\ last.rpc /\ last.connErr # NoErr) =>
    /\ last.err = last.connErr
    /\ \A sentinel \in Sentinels : ~ErrorsIs(last.err, sentinel)
    /\ last.resp = NilBody

\* C14 witness: the call on the channel ended with a deadline exceeded.
C14_Witness ==
  /\ last.op = "Invoke"
  /\ last.rpc
  /\ last.connErr = RPCError("DeadlineExceeded")

\* C15: ezgrpc.Invoke called with a nil request (a nil interface, pointer,
\* map, slice, channel or func) returns an error that matches
\* client.ErrInvalidRequest, and has not called the client.
C15_NilRequestRejected ==
  (last.op = "ezgrpc.Invoke" /\ isNil(last.req)) =>
    /\ ErrorsIs(last.err, ErrInvalidRequest)
    /\ ~last.called

\* The mutex is held only by goroutines inside the locked sections of
\* GetServiceInvoker: exclusively between Lock and the deferred Unlock,
\* shared between RLock and RUnlock.
LockHeldOnlyInside ==
  /\ mu.writer # 0 => pc[mu.writer] \in {"locked", "fetch"}
  /\ \A p \in mu.readers : pc[p] = "lookup"
  /\ \A p \in Procs : pc[p] \in {"locked", "fetch"} => mu.writer = p

\* C16: whichever way a call returns (cache hit, connection error, fetch
\* error or cancellation, success), it does not keep the mutex, and, the
\* network operations terminating, every call that was started returns:
\* no interleaving of the callers deadlocks.
C16_NoWedge ==
  /\ []LockHeldOnlyInside
  /\ <>[](\A p \in Procs : pc[p] = "idle")

\* C16 witness: a call has returned a fetch error while another caller
\* waits for the mutex, which is free.
C16_Witness ==
  /\ last.fetch
  /\ ErrorsIs(last.err, ErrFetchServerInfoFailed)
  /\ \E q \in Procs : pc[q] \in {"rlock", "lock"}
  /\ mu = [readers |-> {}, writer |-> 0]

\* C17: the requests of one IP address draw from one token bucket, whatever
\* their source port: by time now the handler has run for at most
\* Burst + now requests of an IP (the bucket starts full and gains one token
\* per period); and a request that is refused gets ResourceExhausted and does
\* not reach the handler.
C17_PerIPBucket ==
  /\ \A ip \in IPs : served[ip] <= Burst + now
  /\ rlast.code = "ResourceExhausted" => ~rlast.handled
  /\ (rlast.code \notin {"none", "Internal"} /\ ~rlast.handled) => rlast.code = "ResourceExhausted"

\* The errors of fetchServiceInfoFromServer that come from the transport
\* (the stream cannot be opened, sent on, received from), and those that say
\* the peer does not have the symbol.
TransportFailures ==
  {"failed to create reflection stream", "failed to send file request",
   "failed to receive response"}
MissingSymbol == {"server reflection error", "service not found in file descriptors"}

\* C18: a call whose reflection exchange failed in the transport returns an
\* error that matches ErrFetchServerInfoFailed and does not match
\* ErrServiceNotFound; an error that matches ErrServiceNotFound comes from a
\* missing symbol only.
C18_TransportFailureNotServiceNotFound ==
  (last.op \in {"Invoke", "GetServiceInvoker"} /\ last.fetch /\ last.err # NoErr) =>
    /\ last.err.kind \in TransportFailures =>
         /\ ErrorsIs(last.err, ErrFetchServerInfoFailed)
         /\ ~ErrorsIs(last.err, ErrServiceNotFound)
    /\ ErrorsIs(last.err, ErrServiceNotFound) => last.err.kind \in MissingSymbol

\* C19: serviceInvoker.Invoke on a unary method with an empty payload, nil
\* or of length zero, does not parse it: it calls conn.Invoke with an empty
\* input message and does not return an invalid-request error.
C19_EmptyPayloadSkipsParsing ==
  ( /\ LastInvoked
    /\ last.method \in DOMAIN LastMethods
    /\ ~LastMethods[last.method].IsStream
    /\ last.body.toks = <<>> )
  => last.rpc /\ ~ErrorsIs(last.err, ErrInvalidRequest)

\* C20: a caller that was given the invoker cached under the key of its
\* (address, service) was given one whose channel is the channel the pool
\* holds for that address, so that the RPC of its invocation goes out on the
\* pooled channel of the address it invokes; its address is pooled.
C20_InvokerOnPooledChannel ==
  \A p \in Procs : call[p].inv # 0 =>
    /\ call[p].addr \in DOMAIN conns
    /\ invokers[call[p].inv].conn = conns[call[p].addr]

\* C21: a goroutine that finds its key in the cache at the first look-up,
\* under the shared lock, leaves GetServiceInvoker in that step with the
\* stored invoker: it does not go on to the exclusive lock, builds no channel,
\* runs no reflection round trip, and leaves conns, services and the invokers
\* as they were; all it changes of the mutex is its own shared hold.
C21_HitIsReadOnly ==
  [][ \A p \in Procs :
        ( /\ pc[p] = "lookup"
          /\ pc'[p] # "lookup"
          /\ CacheKey(call[p].addr, call[p].svc) \in DOMAIN services )
        => /\ pc'[p] \in {"idle", "invoke"}
           /\ pc'[p] = "idle" =>
                /\ last'.inv = services[CacheKey(call[p].addr, call[p].svc)]
                /\ last'.hit = "fast" /\ ~last'.newconn /\ ~last'.fetch /\ last'.err = NoErr
           /\ pc'[p] = "invoke" =>
                /\ call'[p].inv = services[CacheKey(call[p].addr, call[p].svc)]
                /\ call'[p].hit = "fast" /\ ~call'[p].newconn /\ ~call'[p].fetch
           /\ mu'.writer = mu.writer
           /\ mu'.readers = mu.readers \ {p}
           /\ conns' = conns /\ services' = services /\ invokers' = invokers
           /\ nchans' = nchans /\ fetched' = fetched ]_vars

\* C21 witness: GetServiceInvoker returned the cached invoker from the
\* first look-up.
C21_Witness ==
  /\ last.op = "GetServiceInvoker"
  /\ last.hit = "fast"
  /\ last.inv # 0
  /\ last.inv = services[CacheKey(last.addr, last.svc)]

\* The positions at which the files declare a service of the requested name.
Declares(files, serviceName) ==
  \E pos \in ServicePositions(files) :
    files[pos[1]].services[pos[2]].FullName = serviceName

\* The same files in every order.
Reorderings(files) ==
  { [i \in DOMAIN files |-> files[f[i]]] :
      f \in {g \in [DOMAIN files -> DOMAIN files] : Range(g) = DOMAIN files} }

\* What parseServiceDescriptor returned, as the pair it computes.
ParseResult == [err |-> parseOut.err, info |-> parseOut.info]

\* C22 as stated: parseServiceDescriptor returns the service of the requested
\* name whenever the files declare one, and a service-not-found error with no
\* schema whenever they declare none.
C22_Original ==
  parseOut.done =>
    /\ Declares(parseIn.files, parseIn.serviceName) =>
         /\ parseOut.err = NoErr
         /\ parseOut.info.Name = parseIn.serviceName
    /\ ~Declares(parseIn.files, parseIn.serviceName) =>
         /\ parseOut.err = Errorf("service not found in file descriptors")
         /\ parseOut.info = NilInfo

\* C22: when protodesc.NewFiles accepts the files, parseServiceDescriptor
\* returns the declared service whose full name is the requested name, with
\* the same result for every order of the files, and returns a
\* service-not-found error and no schema when no declared service has that
\* name (a message of that name included); when NewFiles refuses the files it
\* returns the descriptor-creation error and no schema, whatever they declare.
C22_ParseFindsService ==
  parseOut.done =>
    LET files == parseIn.files
        serviceName == parseIn.serviceName
    IN  /\ ~NewFilesOk(files) =>
             /\ parseOut.err = Errorf("failed to create file descriptor")
             /\ parseOut.info = NilInfo
        /\ (NewFilesOk(files) /\ Declares(files, serviceName)) =>
             /\ parseOut.err = NoErr
             /\ parseOut.info.Name = serviceName
             /\ \E f \in Range(files) : \E s \in Range(f.services) :
                  /\ s.FullName = serviceName
                  /\ parseOut.info.Methods = MethodsOf(files, s)
             /\ \A other \in Reorderings(files) :
                  parseServiceDescriptor(other, serviceName) = ParseResult
        /\ (NewFilesOk(files) /\ ~Declares(files, serviceName)) =>
             /\ parseOut.err = Errorf("service not found in file descriptors")
             /\ parseOut.info = NilInfo
             /\ \A other \in Reorderings(files) :
                  parseServiceDescriptor(other, serviceName) = ParseResult

\* C22 witness: the requested service was found in the second of two files.
C22_Witness ==
  /\ parseOut.done
  /\ parseOut.err = NoErr
  /\ Len(parseIn.files) = 2
  /\ ~Declares(<<parseIn.files[1]>>, parseIn.serviceName)
  /\ parseOut.info.Name = parseIn.serviceName

\* C22 witness of the other case: the requested name is a message of the
\* files, not a service, and the answer is service-not-found.
C22_WitnessMessage ==
  /\ parseOut.done
  /\ parseIn.serviceName \in {d.name : d \in AllMessages(parseIn.files)}
  /\ parseOut.err = Errorf("service not found in file descriptors")
  /\ parseOut.info = NilInfo

\* C23: the method map of the resolved schema has exactly one entry per
\* declared method of the matched service, keyed by the method's name, and an
\* entry's streaming flag is true exactly when the method is client-streaming
\* or server-streaming.
C23_MethodMap ==
  (parseOut.done /\ parseOut.err = NoErr) =>
    \A f \in Range(parseIn.files) : \A s \in Range(f.services) :
      s.FullName = parseIn.serviceName =>
        /\ DOMAIN parseOut.info.Methods = {m.Name : m \in Range(s.methods)}
        /\ Cardinality(DOMAIN parseOut.info.Methods) = Len(s.methods)
        /\ \A i \in DOMAIN s.methods :
             LET m == s.methods[i]
                 e == parseOut.info.Methods[m.Name]
             IN  /\ e.Name = m.Name
                 /\ e.IsStream = (m.IsStreamingClient \/ m.IsStreamingServer)
                 /\ (~e.IsStream) = (~m.IsStreamingClient /\ ~m.IsStreamingServer)

\* C23 witness: a service with a unary, a client-streaming, a
\* server-streaming and a bidirectional method was resolved.
C23_Witness ==
  /\ parseOut.done
  /\ parseOut.err = NoErr
  /\ parseOut.info.Name = "Chat"
  /\ Cardinality(DOMAIN parseOut.info.Methods) = 4
  /\ ~parseOut.info.Methods["Send"].IsStream
  /\ parseOut.info.Methods["Upload"].IsStream

\* C24: a fetch that fails leaves the pool and the closed channels as they
\* were, with the caller's channel still pooled under its address; a call
\* that finds its address in the pool takes the pooled channel and builds
\* none; and the only steps that close a channel are the iterations of Close.
C24_FailedFetchKeepsChannel ==
  [][ /\ \A p \in Procs :
           ( /\ pc[p] = "fetch"
             /\ pc'[p] = "idle"
             /\ last'.err # NoErr )
           => /\ conns' = conns
              /\ closed' = closed
              /\ call[p].addr \in DOMAIN conns'
              /\ conns'[call[p].addr] = call[p].conn
      /\ \A p \in Procs :
           ( /\ pc[p] = "locked"
             /\ pc'[p] = "fetch"
             /\ call[p].addr \in DOMAIN conns )
           => /\ call'[p].conn = conns[call[p].addr]
              /\ conns' = conns
              /\ nchans' = nchans
      /\ closed' # closed =>
           /\ pc[Closer] = "close"
           /\ call'[Closer].tried # call[Closer].tried
           /\ \E addr \in DOMAIN conns : closed' = closed \cup {conns[addr]} ]_vars

\* C24 witness: a call found the channel of its address pooled, the fetch
\* on it failed, and the channel is still pooled and was not closed, though a
\* fetch on it failed before.
C24_Witness ==
  /\ last.op # "none"
  /\ last.fetch
  /\ ~last.newconn
  /\ ErrorsIs(last.err, ErrFetchServerInfoFailed)
  /\ last.addr \in DOMAIN conns
  /\ conns[last.addr] = last.conn
  /\ conns[last.addr] \notin closed
  /\ fetched[<<last.addr, last.svc>>].runs >= 2
  /\ fetched[<<last.addr, last.svc>>].oks = 0
  /\ closed = {}

\* C25: a message is delivered to the handler at most twice (once, and once
\* more after a handler error), it is acknowledged at most once, and an
\* acknowledged message is neither ready in the queue nor with the handler.
C25_RetriedOnce ==
  \A m \in Messages :
    /\ deliveries[m] <= 2
    /\ acks[m] <= 1
    /\ acks[m] = 1 => (m \notin broker /\ delivery # m)

\* C30: every call of InitConnection that returned a nil error left the
\* datastore connected: dataStore is set.
C30_NilMeansConnected ==
  \A i \in DOMAIN inits : inits[i].err = NoErr => dataStore # "nil"

\* The goroutine p holds the exclusive lock and its next step, getOrCreateConn,
\* writes its address into the pool.
InsertsNext(p) ==
  /\ pc[p] = "locked"
  /\ mu.writer = p
  /\ ~SecondLookup(CacheKey(call[p].addr, call[p].svc))
  /\ getOrCreateConn(call[p].addr).new

\* Close is inside its range over c.conns: entries it began with are still
\* to be visited.
CloseRanging == pc[Closer] = "close" /\ call[Closer].snap \ Range(call[Closer].tried) # {}

\* C26: Close's range over the pool and a caller's insertion into the pool
\* exclude each other: while Close is inside its range, no goroutine stands
\* in the exclusive section about to write the pool.
C26_CloseExcludesInsert ==
  CloseRanging => \A p \in Procs : ~InsertsNext(p)

\* C27: no step of Close changes the pool, the cache or an invoker; and with
\* channels closed, a caller whose key is cached is still given the cached
\* invoker, whose channel stays the closed one, and a caller whose address is
\* pooled is given the pooled channel, closed or not, and builds no other.
C27_CloseRemovesNothing ==
  [][ /\ (pc'[Closer] # pc[Closer] \/ call'[Closer] # call[Closer]) =>
           /\ conns' = conns
           /\ services' = services
           /\ invokers' = invokers
      /\ \A p \in Procs :
           ( /\ pc[p] = "lookup"
             /\ pc'[p] # "lookup"
             /\ CacheKey(call[p].addr, call[p].svc) \in DOMAIN services
             /\ invokers[services[CacheKey(call[p].addr, call[p].svc)]].conn \in closed )
           => /\ (IF pc'[p] = "idle" THEN last'.inv ELSE call'[p].inv)
                   = services[CacheKey(call[p].addr, call[p].svc)]
              /\ invokers' = invokers
              /\ nchans' = nchans
      /\ \A p \in Procs :
           ( /\ pc[p] = "locked"
             /\ pc'[p] = "fetch"
             /\ call[p].addr \in DOMAIN conns
             /\ conns[call[p].addr] \in closed )
           => /\ call'[p].conn = conns[call[p].addr]
              /\ ~call'[p].newconn
              /\ conns' = conns
              /\ nchans' = nchans ]_vars

\* C27 witness: after a Close, an Invoke was given the cached invoker from
\* the first look-up and its RPC ran on the closed channel, which the pool
\* still holds.
C27_Witness ==
  /\ last.op = "Invoke"
  /\ last.hit = "fast"
  /\ last.inv # 0
  /\ invokers[last.inv].conn \in closed
  /\ last.connErr = RPCError(RPCCanceled)
  /\ \E addr \in DOMAIN conns : conns[addr] = invokers[last.inv].conn
  /\ pc[Closer] = "idle"

\* C27 witness of the other case: a call for a pooled address whose channel
\* was closed took that channel for its fetch.
C27_WitnessKnownAddress ==
  \E p \in Procs :
    /\ pc[p] = "fetch"
    /\ call[p].conn \in closed
    /\ ~call[p].newconn
    /\ conns[call[p].addr] = call[p].conn

\* C28: a failed resolve is not remembered and the resolves are serial.  At
\* most one goroutine is between Lock and Unlock; a fetch that fails leaves
\* the cache as it was; and a goroutine under the exclusive lock whose key is
\* not cached and whose channel was obtained goes on to a reflection attempt
\* of its own, which counts as one more run for its (address, service),
\* whatever the attempts before it returned.
C28_FailureNotRemembered ==
  [][ /\ Cardinality({p \in Procs : pc[p] \in {"locked", "fetch"}}) <= 1
      /\ \A p \in Procs :
           ( /\ pc[p] = "fetch"
             /\ pc'[p] = "idle"
             /\ last'.err # NoErr )
           => /\ services' = services
              /\ ErrorsIs(last'.err, ErrFetchServerInfoFailed)
      /\ \A p \in Procs :
           ( /\ pc[p] = "locked"
             /\ CacheKey(call[p].addr, call[p].svc) \notin DOMAIN services
             /\ getOrCreateConn(call[p].addr).err = NoErr
             /\ pc'[p] # "locked" )
           => pc'[p] = "fetch"
      /\ \A p \in Procs :
           ( pc[p] = "fetch" /\ pc'[p] # "fetch" )
           => fetched'[<<call[p].addr, call[p].svc>>].runs
                = fetched[<<call[p].addr, call[p].svc>>].runs + 1 ]_vars

\* C28 witness: two callers asked for one uncached (address, service) at the
\* same time; the attempt of the first failed, and the second, which had begun
\* before any attempt, ran its own, succeeded and filled the cache.
C28_Witness ==
  /\ last.op # "none"
  /\ last.fetch
  /\ last.err = NoErr
  /\ last.runs0 = 0
  /\ fetched[<<last.addr, last.svc>>].runs = 2
  /\ fetched[<<last.addr, last.svc>>].oks = 1
  /\ CacheKey(last.addr, last.svc) \in DOMAIN services
  /\ services[CacheKey(last.addr, last.svc)] = last.inv

\* C28 witness of the other case: both concurrent callers ran an attempt
\* and both attempts failed.
C28_WitnessBothFailed ==
  /\ last.op # "none"
  /\ last.fetch
  /\ last.err # NoErr
  /\ last.runs0 = 0
  /\ fetched[<<last.addr, last.svc>>].runs = 2
  /\ fetched[<<last.addr, last.svc>>].oks = 0

\* C29: no cache entry serves two (address, service) pairs: the pairs that
\* were given invokers and have equal cache keys are equal, no invoker was
\* given to two different pairs, and an invoker given for an address holds a
\* channel that was handed out for that address.
C29_NoSharedEntry ==
  /\ \A k1, k2 \in Keys :
       ( /\ given[k1] # {}
         /\ given[k2] # {}
         /\ CacheKey(k1[1], k1[2]) = CacheKey(k2[1], k2[2]) )
       => k1 = k2
  /\ \A k1, k2 \in Keys : given[k1] \cap given[k2] # {} => k1 = k2
  /\ \A k \in Keys : \A inv \in given[k] : invokers[inv].conn \in handed[k[1]]

====
